---- MODULE Spec2Model ----
(***************************************************************************)
(* Model of src/src/vector_windows.rs: the Windows service lifecycle       *)
(* controller (service_control::control and its five actions, poll_state,  *)
(* ensure_state, open_service) and the in-process run loop (run_service    *)
(* with its control event handler).                                        *)
(*                                                                         *)
(* One behaviour is one call of one entry point:                           *)
(*   entry = "control"      service_control::control(service_def, action)  *)
(*   entry = "poll_state"   poll_state(service, state, timeout, wait_hint) *)
(*   entry = "from_str"     ControlAction::from_str(s)                     *)
(*   entry = "run_service"  run_service(arguments), with the OS thread     *)
(*                          that calls the registered event handler        *)
(* The OS service registry is the environment: every provider call picks   *)
(* its outcome (success, failure, the reported status) nondeterministically.*)
(***************************************************************************)
EXTENDS Integers, Sequences, FiniteSets, TLC

VARIABLES
    entry,          \* which entry point this behaviour runs
    token,          \* the text given to ControlAction::from_str
    action,         \* the ControlAction given to control()
    pc,             \* position of the calling (main) thread
    service_status, \* the ServiceStatus last returned by query_status
    calls,          \* provider calls issued so far, in order
    events,         \* internal events emitted so far, in order
    open_error,     \* how open_service failed, if it did
    result,         \* what the entry point returned
    state,          \* poll_state: the state polled for
    timeout,        \* poll_state: timeout (seconds)
    wait_hint,      \* poll_state: interval between queries (seconds)
    wait_index,     \* poll_state: local wait_index
    wait_time,      \* poll_state: local wait_time (seconds)
    queries,        \* poll_state: status queries made by the loop
    sleeps,         \* poll_state: thread::sleep(wait_hint) calls made
    poll_status,    \* poll_state: the value returned
    registered,     \* run_service: the control handler is registered
    application,    \* run_service: result of Application::prepare()
    chan,           \* run_service: messages queued in the mpsc channel
    rx_alive,       \* run_service: shutdown_rx has not been dropped
    reports,        \* run_service: set_service_status calls, in order
    code,           \* run_service: the exit code computed by the match
    recvs,          \* run_service: shutdown_rx.recv() calls that returned
    topology_stops, \* run_service: topology.stop() calls
    topology_result,\* run_service: how topology.stop() resolved
    delivered,      \* control events the OS handed to the handler so far
    stop_events,    \* of those, the Stop events
    handler_result, \* what the handler did on the last control event
    aborted         \* a handler panic took the process down

vars ==
    << entry, token, action, pc, service_status, calls, events, open_error, result, state, timeout,
       wait_hint, wait_index, wait_time, queries, sleeps, poll_status,
       registered, application, chan, rx_alive, reports, code, recvs,
       topology_stops, topology_result, delivered, stop_events, handler_result,
       aborted >>

ctl_vars ==
    << action, calls, events, open_error >>

poll_vars ==
    << state, timeout, wait_hint, wait_index, wait_time, queries, sleeps,
       poll_status >>

run_vars ==
    << registered, application, chan, rx_alive, reports, code, recvs,
       topology_stops, topology_result, delivered, stop_events, handler_result,
       aborted >>

----------------------------------------------------------------------------
(* Bounds of the model *)

MaxTimeout == 3

MaxInterval == 2

MaxQueries == 12

MaxEvents == 3

(* Program constants *)

NO_ERROR == 0

ERROR_FAIL_SHUTDOWN == 351

EnsureTimeoutSecs == 10

EnsureWaitHintSecs == 1

----------------------------------------------------------------------------
(* Data *)

ControlAction ==
    {"Install", "Uninstall", "Start", "Stop", "Restart"}

\* windows_service::service::ServiceState; Paused stands for the states the
\* source never names (Paused, PausePending, ContinuePending).
ServiceState ==
    {"Stopped", "StartPending", "StopPending", "Running", "Paused"}

\* exit codes a queried ServiceStatus may carry (Win32 codes)
StatusExitCodes ==
    {NO_ERROR, 1}

ServiceStatus ==
    [current_state : ServiceState, exit_code : StatusExitCodes]

NoStatus ==
    [current_state |-> "None", exit_code |-> NO_ERROR]

\* enum PollStatus { NoTimeout(ServiceStatus), Timeout(ServiceStatus) }, and the
\* Err of poll_state's Result
NoTimeout(status) ==
    [tag |-> "NoTimeout", status |-> status]

Timeout(status) ==
    [tag |-> "Timeout", status |-> status]

PollErr ==
    [tag |-> "Err", status |-> NoStatus]

NoPoll ==
    [tag |-> "None", status |-> NoStatus]

\* crate::Result<()> of a control action. "Service" is Error::Service{source}
\* (a provider error wrapped by .context(Service)); "Provider" is a
\* windows_service::Error converted by `?` without the wrapper.
Pending ==
    [tag |-> "Pending", state |-> "None", expected_state |-> "None", timeout |-> 0]

Ok ==
    [tag |-> "Ok", state |-> "None", expected_state |-> "None", timeout |-> 0]

ErrService ==
    [tag |-> "Service", state |-> "None", expected_state |-> "None", timeout |-> 0]

ErrProvider ==
    [tag |-> "Provider", state |-> "None", expected_state |-> "None", timeout |-> 0]

\* Err(String) of ControlAction::from_str
ErrParse ==
    [tag |-> "Parse", state |-> "None", expected_state |-> "None", timeout |-> 0]

PollTimeout(observed, expected, t) ==
    [tag |-> "PollTimeout", state |-> observed, expected_state |-> expected,
     timeout |-> t]

\* internal events
Event(name, flag) ==
    [name |-> name, flag |-> flag]

WindowsServiceStart(already_started) ==
    Event("Started", already_started)

WindowsServiceStop(already_stopped) ==
    Event("Stopped", already_stopped)

WindowsServiceRestart ==
    Event("Restarted", FALSE)

WindowsServiceInstall ==
    Event("Installed", FALSE)

WindowsServiceUninstall ==
    Event("Uninstalled", FALSE)

WindowsServiceDoesNotExist ==
    Event("DoesNotExist", FALSE)

\* ServiceExitCode
Win32(c) ==
    [kind |-> "Win32", code |-> c]

ServiceSpecific(c) ==
    [kind |-> "ServiceSpecific", code |-> c]

NoCode ==
    [kind |-> "None", code |-> 0]

\* exit codes Application::prepare() may fail with
BootstrapCodes ==
    {1, 78}

\* ServiceControl values the OS may deliver; Pause stands for every control
\* other than Interrogate and Stop.
ServiceControl ==
    {"Interrogate", "Stop", "Pause"}

\* texts given to ControlAction::from_str: the five action tokens and others
Tokens ==
    {"install", "uninstall", "start", "stop", "restart", "Restart", "status", ""}

----------------------------------------------------------------------------
(* service_control: the pure decisions *)

\* ControlAction::from_str (lines 111-119): the action parsed, "Err" for the
\* Err(..) of the catch-all arm
from_str(s) ==
    CASE s = "install" -> "Install"
      [] s = "uninstall" -> "Uninstall"
      [] s = "start" -> "Start"
      [] s = "stop" -> "Stop"
      [] OTHER -> "Err"

\* start_service's guard, as written (lines 137-138)
ShouldStart(current_state) ==
    current_state # "StartPending" \/ current_state # "Running"

\* stop_service's guard, as written (lines 160-161)
ShouldStop(current_state) ==
    current_state # "StopPending" \/ current_state # "Stopped"

RestartStopsAnyNotStopped(current_state) ==
    current_state # "Stopped"

\* restart_service's guard (lines 184-185)
RestartShouldStop(current_state) ==
    current_state = "StartPending" \/ current_state = "Running"

\* uninstall_service's guard (line 245)
UninstallShouldStop(current_state) ==
    current_state # "Stopped"

ReachedOrStopPending(current_state, target) ==
    current_state = target \/ current_state = "StopPending"

\* poll_state's test of the queried state (line 314)
ReachedState(current_state, target) ==
    current_state = target

TimedOutLate(wt, t) ==
    wt > t

TimedOutEarly(wt, t) ==
    wt >= t - 1

\* poll_state's exit test (line 324)
TimedOut(wt, t) ==
    wt >= t

OpenEmitsNothing(outcome) ==
    << >>

\* open_service's map_err (lines 279-284): the events emitted for the outcome
\* of service_manager.open_service; the closure runs on every error
OpenServiceEmits(outcome) ==
    IF outcome = "Ok" THEN << >> ELSE << WindowsServiceDoesNotExist >>

ensure_state_swallows(ps, expected, t) ==
    CASE ps.tag = "Timeout" -> PollTimeout(ps.status.current_state, expected, t)
      [] OTHER -> Ok

ensure_state_lenient(ps, expected, t) ==
    CASE ps.tag = "Err" -> ErrProvider
      [] OTHER -> Ok

\* ensure_state (lines 340-350): the Result it returns for a poll_state result;
\* Ok stands for Ok(status), the status being ps.status
ensure_state(ps, expected, t) ==
    CASE ps.tag = "Err" -> ErrProvider
      [] ps.tag = "Timeout" -> PollTimeout(ps.status.current_state, expected, t)
      [] OTHER -> Ok

----------------------------------------------------------------------------
(* Initial states *)

IdleRun ==
    /\ registered = FALSE
    /\ application = [ok |-> FALSE, code |-> 0]
    /\ chan = 0
    /\ rx_alive = TRUE
    /\ reports = << >>
    /\ code = NoCode
    /\ recvs = 0
    /\ topology_stops = 0
    /\ topology_result = "None"
    /\ delivered = 0
    /\ stop_events = 0
    /\ handler_result = "None"
    /\ aborted = FALSE

IdlePoll ==
    /\ state = "None"
    /\ timeout = 0
    /\ wait_hint = 0
    /\ wait_index = 0
    /\ wait_time = 0
    /\ queries = 0
    /\ sleeps = 0
    /\ poll_status = NoPoll

IdleCtl ==
    /\ service_status = NoStatus
    /\ calls = << >>
    /\ events = << >>
    /\ open_error = "None"
    /\ result = Pending

\* control(service_def, action) is entered (lines 122-130)
InitControl ==
    /\ entry = "control"
    /\ token = ""
    /\ action \in ControlAction
    /\ pc = IF action = "Install" THEN "install" ELSE "open"
    /\ IdleCtl /\ IdlePoll /\ IdleRun

\* poll_state(service, state, timeout, wait_hint) is entered (lines 303-310)
InitPoll ==
    /\ entry = "poll_state"
    /\ token = ""
    /\ action = "None"
    /\ pc = "poll"
    /\ IdleCtl /\ IdleRun
    /\ state \in {"Stopped", "Running"}
    /\ timeout \in 0..MaxTimeout
    /\ wait_hint \in 0..MaxInterval
    /\ wait_index = 1
    /\ wait_time = 0
    /\ queries = 0
    /\ sleeps = 0
    /\ poll_status = NoPoll

\* run_service(arguments) is entered, the channel created (lines 364-365)
InitRun ==
    /\ entry = "run_service"
    /\ token = ""
    /\ action = "None"
    /\ pc = "register"
    /\ IdleCtl /\ IdlePoll /\ IdleRun

\* ControlAction::from_str(s) is entered (line 111)
InitParse ==
    /\ entry = "from_str"
    /\ token \in Tokens
    /\ action = "None"
    /\ pc = "parse"
    /\ IdleCtl /\ IdlePoll /\ IdleRun

Init ==
    InitControl \/ InitPoll \/ InitRun \/ InitParse

----------------------------------------------------------------------------
(* service_control: the control actions *)

Return(r) ==
    /\ result' = r
    /\ pc' = "done"

\* ControlAction::from_str(token) returns (lines 111-119)
parse ==
    /\ entry = "from_str" /\ pc = "parse"
    /\ LET parsed == from_str(token)
       IN  IF parsed = "Err"
           THEN /\ action' = action
                /\ Return(ErrParse)
           ELSE /\ action' = parsed
                /\ Return(Ok)
    /\ UNCHANGED << entry, token, service_status, calls, events, open_error,
                    poll_vars, run_vars >>

\* the call ensure_state(&service, Stopped, 10 s, 1 s): poll_state's locals
BeginEnsure ==
    /\ state' = "Stopped"
    /\ timeout' = EnsureTimeoutSecs
    /\ wait_hint' = EnsureWaitHintSecs
    /\ wait_index' = 1
    /\ wait_time' = 0
    /\ queries' = 0
    /\ sleeps' = 0
    /\ poll_status' = NoPoll
    /\ pc' = "poll"
    /\ result' = result

\* open_service (lines 269-287): connect to the registry, open the service;
\* any error of the open emits WindowsServiceDoesNotExist
open_service ==
    /\ entry = "control" /\ pc = "open"
    /\ \E outcome \in {"Ok", "Connect", "NotFound", "AccessDenied"} :
        /\ open_error' = IF outcome = "Ok" THEN "None" ELSE outcome
        /\ IF outcome = "Connect"
           THEN /\ calls' = Append(calls, "connect")
                /\ events' = events
                /\ Return(ErrService)
           ELSE /\ calls' = calls \o << "connect", "open" >>
                /\ events' = events \o OpenServiceEmits(outcome)
                /\ IF outcome = "Ok"
                   THEN /\ pc' = "query_status"
                        /\ result' = result
                   ELSE Return(ErrService)
    /\ UNCHANGED << entry, token, action, service_status, poll_vars, run_vars >>

\* service.query_status().context(Service)? (lines 135, 158, 182, 244)
query_status ==
    /\ entry = "control" /\ pc = "query_status"
    /\ calls' = Append(calls, "query_status")
    /\ \/ /\ \E s \in ServiceStatus : service_status' = s
          /\ pc' = "decide"
          /\ result' = result
       \/ /\ service_status' = service_status
          /\ Return(ErrService)
    /\ UNCHANGED << entry, token, action, events, open_error, poll_vars, run_vars >>

start_service_emits_first ==
    /\ entry = "control" /\ pc = "decide" /\ action = "Start"
    /\ IF ShouldStart(service_status.current_state)
       THEN /\ calls' = Append(calls, "start")
            /\ events' = Append(events, WindowsServiceStart(FALSE))
            /\ \/ Return(Ok)
               \/ Return(ErrService)
       ELSE /\ calls' = calls
            /\ events' = Append(events, WindowsServiceStart(TRUE))
            /\ Return(Ok)
    /\ UNCHANGED << entry, token, action, service_status, open_error, poll_vars,
                    run_vars >>

\* start_service after the query (lines 137-152)
start_service ==
    /\ entry = "control" /\ pc = "decide" /\ action = "Start"
    /\ IF ShouldStart(service_status.current_state)
       THEN /\ calls' = Append(calls, "start")
            /\ \/ /\ events' = Append(events, WindowsServiceStart(FALSE))
                  /\ Return(Ok)
               \/ /\ events' = events
                  /\ Return(ErrService)
       ELSE /\ calls' = calls
            /\ events' = Append(events, WindowsServiceStart(TRUE))
            /\ Return(Ok)
    /\ UNCHANGED << entry, token, action, service_status, open_error, poll_vars, run_vars >>

\* stop_service after the query (lines 160-175)
stop_service ==
    /\ entry = "control" /\ pc = "decide" /\ action = "Stop"
    /\ IF ShouldStop(service_status.current_state)
       THEN /\ calls' = Append(calls, "stop")
            /\ \/ /\ events' = Append(events, WindowsServiceStop(FALSE))
                  /\ Return(Ok)
               \/ /\ events' = events
                  /\ Return(ErrService)
       ELSE /\ calls' = calls
            /\ events' = Append(events, WindowsServiceStop(TRUE))
            /\ Return(Ok)
    /\ UNCHANGED << entry, token, action, service_status, open_error, poll_vars, run_vars >>

restart_service_stop_no_poll ==
    /\ entry = "control" /\ pc = "decide" /\ action = "Restart"
    /\ IF RestartShouldStop(service_status.current_state)
       THEN /\ calls' = Append(calls, "stop")
            /\ \/ /\ pc' = "ensured"
                  /\ result' = result
               \/ Return(ErrProvider)
       ELSE /\ calls' = calls
            /\ pc' = "ensured"
            /\ result' = result
    /\ UNCHANGED << entry, token, action, service_status, events, open_error,
                    poll_vars, run_vars >>

\* restart_service after the query, up to the call of ensure_state
\* (lines 184-195); service.stop()? carries no .context(Service)
restart_service_stop ==
    /\ entry = "control" /\ pc = "decide" /\ action = "Restart"
    /\ IF RestartShouldStop(service_status.current_state)
       THEN /\ calls' = Append(calls, "stop")
            /\ \/ BeginEnsure
               \/ /\ Return(ErrProvider)
                  /\ UNCHANGED poll_vars
       ELSE /\ calls' = calls
            /\ BeginEnsure
    /\ UNCHANGED << entry, token, action, service_status, events, open_error, run_vars >>

\* uninstall_service after the query, up to the call of ensure_state
\* (lines 245-258)
uninstall_service_stop ==
    /\ entry = "control" /\ pc = "decide" /\ action = "Uninstall"
    /\ IF UninstallShouldStop(service_status.current_state)
       THEN /\ calls' = Append(calls, "stop")
            /\ \/ /\ events' = Append(events, WindowsServiceStop(FALSE))
                  /\ BeginEnsure
               \/ /\ events' = events
                  /\ Return(ErrService)
                  /\ UNCHANGED poll_vars
       ELSE /\ calls' = calls
            /\ events' = events
            /\ BeginEnsure
    /\ UNCHANGED << entry, token, action, service_status, open_error, run_vars >>

\* one iteration of poll_state's loop up to its break or its sleep
\* (lines 312-327)
poll_state ==
    /\ entry \in {"control", "poll_state"} /\ pc = "poll"
    /\ queries < MaxQueries
    /\ calls' = Append(calls, "query_status")
    /\ queries' = queries + 1
    /\ \/ /\ poll_status' = PollErr
          /\ pc' = IF entry = "poll_state" THEN "done" ELSE "polled"
          /\ UNCHANGED << service_status, wait_index, wait_time >>
       \/ \E s \in ServiceStatus :
            /\ service_status' = s
            /\ IF ReachedState(s.current_state, state)
               THEN /\ poll_status' = NoTimeout(s)
                    /\ pc' = IF entry = "poll_state" THEN "done" ELSE "polled"
                    /\ UNCHANGED << wait_index, wait_time >>
               ELSE /\ wait_index' = wait_index + 1
                    /\ wait_time' = wait_time + wait_hint
                    /\ IF TimedOut(wait_time', timeout)
                       THEN /\ poll_status' = Timeout(s)
                            /\ pc' = IF entry = "poll_state" THEN "done"
                                     ELSE "polled"
                       ELSE /\ poll_status' = poll_status
                            /\ pc' = "sleep"
    /\ UNCHANGED << entry, token, action, events, open_error, result, state, timeout,
                    wait_hint, sleeps, run_vars >>

poll_sleep_skipped ==
    /\ entry \in {"control", "poll_state"} /\ pc = "sleep"
    /\ pc' = "poll"
    /\ UNCHANGED << entry, token, action, service_status, calls, events, open_error,
                    result, state, timeout, wait_hint, wait_index, wait_time,
                    queries, sleeps, poll_status, run_vars >>

\* std::thread::sleep(wait_hint) (line 328)
poll_sleep ==
    /\ entry \in {"control", "poll_state"} /\ pc = "sleep"
    /\ sleeps' = sleeps + 1
    /\ pc' = "poll"
    /\ UNCHANGED << entry, token, action, service_status, calls, events, open_error,
                    result, state, timeout, wait_hint, wait_index, wait_time,
                    queries, poll_status, run_vars >>

\* ensure_state's match on the poll result, and the `?` of its caller
\* (lines 342-350, 195, 258); handle_service_exit_code only logs
ensure_state_returns ==
    /\ entry = "control" /\ pc = "polled"
    /\ LET r == ensure_state(poll_status, state, timeout)
       IN  IF r = Ok
           THEN /\ pc' = "ensured"
                /\ result' = result
           ELSE Return(r)
    /\ UNCHANGED << entry, token, ctl_vars, service_status, poll_vars, run_vars >>

\* restart_service after ensure_state (lines 198-202)
restart_service_start ==
    /\ entry = "control" /\ pc = "ensured" /\ action = "Restart"
    /\ calls' = Append(calls, "start")
    /\ \/ /\ events' = Append(events, WindowsServiceRestart)
          /\ Return(Ok)
       \/ /\ events' = events
          /\ Return(ErrService)
    /\ UNCHANGED << entry, token, action, service_status, open_error, poll_vars, run_vars >>

\* uninstall_service after ensure_state (lines 261-266)
uninstall_service_delete ==
    /\ entry = "control" /\ pc = "ensured" /\ action = "Uninstall"
    /\ calls' = Append(calls, "delete")
    /\ \/ /\ events' = Append(events, WindowsServiceUninstall)
          /\ Return(Ok)
       \/ /\ events' = events
          /\ Return(ErrService)
    /\ UNCHANGED << entry, token, action, service_status, open_error, poll_vars, run_vars >>

\* install_service (lines 205-237)
install_service ==
    /\ entry = "control" /\ pc = "install"
    /\ \E outcome \in {"Ok", "Connect", "Create"} :
        IF outcome = "Connect"
        THEN /\ calls' = Append(calls, "connect")
             /\ events' = events
             /\ Return(ErrService)
        ELSE /\ calls' = calls \o << "connect", "create_service" >>
             /\ IF outcome = "Ok"
                THEN /\ events' = Append(events, WindowsServiceInstall)
                     /\ Return(Ok)
                ELSE /\ events' = events
                     /\ Return(ErrService)
    /\ UNCHANGED << entry, token, action, service_status, open_error, poll_vars, run_vars >>

----------------------------------------------------------------------------
(* run_service and its control event handler *)

ShutdownAlwaysNoError(stopped_ok) ==
    Win32(NO_ERROR)

\* the exit code of the shutdown sequence (lines 403-406)
ShutdownExitCode(stopped_ok) ==
    IF stopped_ok THEN Win32(NO_ERROR) ELSE Win32(ERROR_FAIL_SHUTDOWN)

AlwaysReportRunning(app) ==
    "report_running"

\* the match on Application::prepare()'s result (lines 386-387, 409): where
\* the main thread goes next
AfterPrepare(app) ==
    IF app.ok THEN "report_running" ELSE "report_stopped"

\* the ServiceStatus handed to set_service_status (lines 388-396, 413-421),
\* with whether the call succeeded
Report(current_state, controls_accepted, exit_code, ok) ==
    [current_state |-> current_state, controls_accepted |-> controls_accepted,
     exit_code |-> exit_code, ok |-> ok]

\* the OS has been told, successfully, that the service stopped
StoppedReported ==
    \E i \in 1..Len(reports) : reports[i].current_state = "Stopped" /\ reports[i].ok

\* service_control_handler::register(SERVICE_NAME, event_handler)? (lines 382-383)
register ==
    /\ entry = "run_service" /\ pc = "register" /\ ~aborted
    /\ \/ /\ registered' = TRUE
          /\ pc' = "prepare"
          /\ UNCHANGED << result, rx_alive >>
       \/ /\ registered' = FALSE
          /\ rx_alive' = FALSE
          /\ Return(ErrProvider)
    /\ UNCHANGED << entry, token, ctl_vars, service_status, poll_vars, application, chan,
                    reports, code, recvs, topology_stops, topology_result, delivered,
                    stop_events, handler_result, aborted >>

\* Application::prepare() and the match on it (lines 385-387, 409); the
\* bootstrap codes are non-negative, so `e as u32` keeps their value
prepare ==
    /\ entry = "run_service" /\ pc = "prepare" /\ ~aborted
    /\ \E app \in {[ok |-> TRUE, code |-> 0]}
                  \cup {[ok |-> FALSE, code |-> c] : c \in BootstrapCodes} :
        /\ application' = app
        /\ code' = IF app.ok THEN code ELSE ServiceSpecific(app.code)
        /\ pc' = AfterPrepare(app)
    /\ UNCHANGED << entry, token, ctl_vars, service_status, result, poll_vars, registered,
                    chan, rx_alive, reports, recvs, topology_stops, topology_result,
                    delivered, stop_events, handler_result, aborted >>

\* set_service_status(Running, accepting STOP)? (lines 388-396): an error
\* returns from run_service, dropping shutdown_rx
report_running ==
    /\ entry = "run_service" /\ pc = "report_running" /\ ~aborted
    /\ \E ok \in BOOLEAN :
        /\ reports' = Append(reports, Report("Running", {"STOP"}, Win32(NO_ERROR), ok))
        /\ IF ok
           THEN /\ pc' = "recv"
                /\ UNCHANGED << result, rx_alive >>
           ELSE /\ rx_alive' = FALSE
                /\ Return(ErrProvider)
    /\ UNCHANGED << entry, token, ctl_vars, service_status, poll_vars, registered,
                    application, chan, code, recvs, topology_stops, topology_result,
                    delivered, stop_events, handler_result, aborted >>

\* shutdown_rx.recv().unwrap() returns and topology.stop() is called
\* (lines 402-403); recv blocks while the channel is empty (the sender lives
\* in the registered handler, so recv never fails)
recv ==
    /\ entry = "run_service" /\ pc = "recv" /\ ~aborted
    /\ chan > 0
    /\ chan' = chan - 1
    /\ recvs' = recvs + 1
    /\ topology_stops' = topology_stops + 1
    /\ pc' = "stopping"
    /\ UNCHANGED << entry, token, ctl_vars, service_status, result, poll_vars, registered,
                    application, rx_alive, reports, code, topology_result, delivered,
                    stop_events, handler_result, aborted >>

\* topology.stop() resolves, the async block returns its exit code and is
\* dropped with the shutdown_rx it owns (lines 403-407)
topology_stopped ==
    /\ entry = "run_service" /\ pc = "stopping" /\ ~aborted
    /\ \E stopped_ok \in BOOLEAN :
        /\ topology_result' = IF stopped_ok THEN "Ok" ELSE "Err"
        /\ code' = ShutdownExitCode(stopped_ok)
    /\ rx_alive' = FALSE
    /\ pc' = "report_stopped"
    /\ UNCHANGED << entry, token, ctl_vars, service_status, result, poll_vars, registered,
                    application, chan, reports, recvs, topology_stops, delivered,
                    stop_events, handler_result, aborted >>

\* set_service_status(Stopped, no controls, code)? and the return
\* (lines 413-423)
report_stopped ==
    /\ entry = "run_service" /\ pc = "report_stopped" /\ ~aborted
    /\ \E ok \in BOOLEAN :
        /\ reports' = Append(reports, Report("Stopped", {}, code, ok))
        /\ Return(IF ok THEN Ok ELSE ErrProvider)
    /\ rx_alive' = FALSE
    /\ UNCHANGED << entry, token, ctl_vars, service_status, poll_vars, registered,
                    application, chan, code, recvs, topology_stops, topology_result,
                    delivered, stop_events, handler_result, aborted >>

\* the OS calls event_handler(control_event) on its own thread (lines 367-381).
\* send(()) on the unbounded channel never blocks; it fails once shutdown_rx is
\* dropped, and the unwrap then panics inside the OS callback, which either
\* takes the process down or only the callback
event_handler ==
    /\ entry = "run_service" /\ registered /\ ~aborted
    /\ ~StoppedReported
    /\ delivered < MaxEvents
    /\ delivered' = delivered + 1
    /\ \E control_event \in ServiceControl :
        CASE control_event = "Interrogate" ->
                /\ handler_result' = "NoError"
                /\ UNCHANGED << chan, stop_events, aborted >>
          [] control_event = "Stop" ->
                /\ stop_events' = stop_events + 1
                /\ IF rx_alive
                   THEN /\ chan' = chan + 1
                        /\ handler_result' = "NoError"
                        /\ aborted' = aborted
                   ELSE /\ chan' = chan
                        /\ handler_result' = "Panic"
                        /\ aborted' \in BOOLEAN
          [] OTHER ->
                /\ handler_result' = "NotImplemented"
                /\ UNCHANGED << chan, stop_events, aborted >>
    /\ UNCHANGED << entry, token, pc, ctl_vars, service_status, result, poll_vars,
                    registered, application, rx_alive, reports, code, recvs,
                    topology_stops, topology_result >>

----------------------------------------------------------------------------
(* Specifications *)

\* the steps of the thread that called the entry point
MainStep ==
    \/ open_service \/ query_status \/ start_service \/ stop_service
    \/ restart_service_stop \/ uninstall_service_stop \/ poll_state
    \/ poll_sleep \/ ensure_state_returns \/ restart_service_start
    \/ uninstall_service_delete \/ install_service \/ parse
    \/ register \/ prepare \/ report_running \/ recv \/ topology_stopped
    \/ report_stopped

Next ==
    \/ open_service
    \/ query_status
    \/ start_service
    \/ stop_service
    \/ restart_service_stop
    \/ uninstall_service_stop
    \/ poll_state
    \/ poll_sleep
    \/ ensure_state_returns
    \/ restart_service_start
    \/ uninstall_service_delete
    \/ install_service
    \/ parse
    \/ register
    \/ prepare
    \/ report_running
    \/ recv
    \/ topology_stopped
    \/ report_stopped
    \/ event_handler

Spec ==
    Init /\ [][Next]_vars

\* the calling thread is sequential code and every call it makes returns:
\* it keeps taking its next step while it has one
FairSpec ==
    Init /\ [][Next]_vars /\ WF_vars(MainStep)

----------------------------------------------------------------------------
(* Properties *)

Issued(call) ==
    \E i \in 1..Len(calls) : calls[i] = call

Count(call) ==
    Cardinality({i \in 1..Len(calls) : calls[i] = call})

Emitted(name) ==
    \E i \in 1..Len(events) : events[i].name = name

Reported(current_state) ==
    \E i \in 1..Len(reports) : reports[i].current_state = current_state

\* C1: Start issues the provider start command only if the queried state is
\* neither StartPending nor Running, and otherwise issues no start and emits
\* Started(already_started = TRUE); Stop issues the provider stop command
\* only if the queried state is neither StopPending nor Stopped, and
\* otherwise issues no stop and emits Stopped(already_stopped = TRUE).
C1_NoRedundantCommand ==
    /\ (entry = "control" /\ action = "Start" /\ pc = "done"
            /\ service_status # NoStatus)
        => IF service_status.current_state \in {"StartPending", "Running"}
           THEN ~Issued("start") /\ events = << WindowsServiceStart(TRUE) >>
           ELSE Issued("start")
    /\ (entry = "control" /\ action = "Stop" /\ pc = "done"
            /\ service_status # NoStatus)
        => IF service_status.current_state \in {"StopPending", "Stopped"}
           THEN ~Issued("stop") /\ events = << WindowsServiceStop(TRUE) >>
           ELSE Issued("stop")

\* C2: Restart issues start only after a status query of its poll observed
\* Stopped; the poll times out exactly after 10 queries none of which returned
\* Stopped, and Restart then fails with PollTimeout{last observed state,
\* Stopped, 10 s}, without a start and without a Restarted event; a stop
\* issued in a Restart precedes its start.
C2_RestartStartsOnlyAfterStopped ==
    (entry = "control" /\ action = "Restart")
    => /\ Issued("start")
            => /\ poll_status.tag = "NoTimeout"
               /\ poll_status.status.current_state = "Stopped"
               /\ poll_status.status = service_status
               /\ queries >= 1
       /\ queries <= 10
       /\ (queries = 10 /\ service_status.current_state # "Stopped"
                /\ poll_status.tag # "Err")
            => poll_status.tag = "Timeout"
       /\ poll_status.tag = "Timeout"
            => /\ queries = 10
               /\ poll_status.status = service_status
               /\ service_status.current_state # "Stopped"
               /\ ~Issued("start")
               /\ ~Emitted("Restarted")
               /\ pc \in {"polled", "done"}
               /\ pc = "done"
                    => result = PollTimeout(service_status.current_state,
                                            "Stopped", 10)
       /\ \A i, j \in 1..Len(calls) :
            (calls[i] = "stop" /\ calls[j] = "start") => i < j

C2_Witness ==
    /\ entry = "control" /\ action = "Restart" /\ pc = "done"
    /\ Issued("stop")
    /\ result.tag = "PollTimeout"
    /\ result.state = "StopPending"

\* C3 as claimed: for every initially queried state other than Stopped,
\* Restart has issued exactly one stop when its poll for Stopped begins.
C3_StopWheneverNotStopped ==
    (entry = "control" /\ action = "Restart" /\ pc = "poll" /\ queries = 0
        /\ service_status.current_state # "Stopped")
    => Count("stop") = 1

\* C3 as amended: Restart issues the provider stop command exactly when the
\* initially queried state is StartPending or Running (one stop, issued right
\* after the query and before the poll begins); for every other initial state
\* (Stopped, StopPending, Paused) it issues no stop at all.
C3_StopOnlyWhenStartingOrRunning ==
    (entry = "control" /\ action = "Restart")
    => /\ Count("stop") <= 1
       /\ (pc = "poll" /\ queries = 0)
            => calls = IF service_status.current_state
                            \in {"StartPending", "Running"}
                       THEN << "connect", "open", "query_status", "stop" >>
                       ELSE << "connect", "open", "query_status" >>

C3_Witness ==
    /\ entry = "control" /\ action = "Restart" /\ pc = "poll" /\ queries = 0
    /\ service_status.current_state = "Paused"
    /\ ~Issued("stop")

\* C4: Uninstall issues delete only after a status query of its own poll has
\* observed Stopped (that query is the call right before the delete); if the
\* poll times out, Uninstall fails with PollTimeout, issues no delete and
\* emits no Uninstalled event.
C4_UninstallDeletesOnlyWhenStopped ==
    (entry = "control" /\ action = "Uninstall")
    => /\ Issued("delete")
            => /\ poll_status.tag = "NoTimeout"
               /\ poll_status.status.current_state = "Stopped"
               /\ service_status.current_state = "Stopped"
               /\ queries >= 1
               /\ calls[Len(calls)] = "delete"
               /\ calls[Len(calls) - 1] = "query_status"
               /\ Count("delete") = 1
       /\ Emitted("Uninstalled") => Issued("delete")
       /\ poll_status.tag = "Timeout"
            => /\ ~Issued("delete")
               /\ ~Emitted("Uninstalled")
               /\ pc \in {"polled", "done"}
               /\ pc = "done" => result.tag = "PollTimeout"

C4_Witness ==
    /\ entry = "control" /\ action = "Uninstall" /\ pc = "done"
    /\ Issued("stop") /\ Issued("delete")
    /\ queries >= 2
    /\ result = Ok

\* C5: every run_service call in which the control handler was registered
\* reports a final status of Stopped with an empty accepted-controls set
\* before it returns, even if the report of Running failed.
C5_StoppedAlwaysReported ==
    (entry = "run_service" /\ registered /\ pc = "done")
    => \E i \in 1..Len(reports) :
        /\ reports[i].current_state = "Stopped"
        /\ reports[i].controls_accepted = {}

\* C6: every Stop control event delivered to the registered handler while
\* the run loop has not returned (during bootstrap, while waiting, while the
\* topology is stopping, or after topology stop completed and before Stopped
\* is reported) is accepted: the send does not fail and the handler returns
\* NoError, never panicking.
C6_StopAlwaysAccepted ==
    (entry = "run_service" /\ pc # "done")
    => (handler_result # "Panic" /\ ~aborted)

\* C7: after a successful bootstrap, once a Stop control event has been
\* delivered and queued, the main thread eventually receives it, invokes
\* topology stop and reports Stopped.
C7_OneStopSuffices ==
    (entry = "run_service" /\ application.ok /\ (chan > 0 \/ recvs > 0))
    ~> (recvs = 1 /\ topology_stops = 1 /\ Reported("Stopped"))

\* C8: Running is reported at most once and only after a successful
\* bootstrap; when bootstrap succeeded, Stopped is reported only after a stop
\* signal was received from the channel and topology stop has completed;
\* nothing is reported after Stopped.
C8_ReportedStatesInOrder ==
    entry = "run_service"
    => /\ Cardinality({i \in 1..Len(reports) :
                        reports[i].current_state = "Running"}) <= 1
       /\ Reported("Running")
            => /\ application.ok
               /\ reports[1].current_state = "Running"
               /\ reports[1].controls_accepted = {"STOP"}
       /\ \A i \in 1..Len(reports) :
            reports[i].current_state = "Stopped" => i = Len(reports)
       /\ (Reported("Stopped") /\ application.ok)
            => /\ Len(reports) = 2
               /\ reports[1].ok
               /\ stop_events >= 1
               /\ recvs = 1
               /\ topology_stops = 1
               /\ topology_result \in {"Ok", "Err"}

C8_Witness ==
    /\ entry = "run_service" /\ pc = "done"
    /\ Len(reports) = 2
    /\ reports[1].current_state = "Running"
    /\ reports[2].current_state = "Stopped"
    /\ topology_result = "Err"

\* C9: the exit code of the final Stopped report is Win32(NO_ERROR) when
\* topology stop succeeded, Win32(ERROR_FAIL_SHUTDOWN) = Win32(351) when it
\* failed, and ServiceSpecific(c) when bootstrap failed with code c; in that
\* last case Running is never reported, the main thread never waits for a
\* stop signal and topology stop is never invoked.
C9_ExitCodeFollowsOutcome ==
    entry = "run_service"
    => /\ \A i \in 1..Len(reports) :
            reports[i].current_state = "Stopped"
            => /\ reports[i].controls_accepted = {}
               /\ reports[i].exit_code =
                    CASE topology_result = "Ok" -> Win32(0)
                      [] topology_result = "Err" -> Win32(351)
                      [] OTHER -> ServiceSpecific(application.code)
               /\ topology_result = "None" => ~application.ok
       /\ (pc # "register" /\ pc # "prepare" /\ registered /\ ~application.ok)
            => /\ application.code \in BootstrapCodes
               /\ ~Reported("Running")
               /\ pc \in {"report_stopped", "done"}
               /\ recvs = 0
               /\ topology_stops = 0
               /\ topology_result = "None"

C9_Witness ==
    /\ entry = "run_service" /\ pc = "done"
    /\ ~application.ok
    /\ reports = << Report("Stopped", {}, ServiceSpecific(78), TRUE) >>
    /\ stop_events >= 1

Ceil(a, b) ==
    (a + b - 1) \div b

C11_TimeoutSleptAtLeastT ==
    (entry \in {"control", "poll_state"} /\ wait_hint > 0
        /\ timeout % wait_hint = 0 /\ poll_status.tag = "Timeout")
    => /\ sleeps * wait_hint >= timeout
       /\ sleeps * wait_hint <= timeout + wait_hint

\* C12: for T = n * I with I > 0 and 1 <= k <= n, a poll whose k-th status query
\* is the first to return the target state returns NoTimeout with that status
\* after exactly k queries and k - 1 sleeps, with no sleep after the
\* successful query; the poll does not give up before its n-th query.
C12_NoTimeoutAfterExactlyKQueries ==
    (entry \in {"control", "poll_state"} /\ wait_hint > 0
        /\ timeout % wait_hint = 0 /\ timeout > 0)
    => LET n == timeout \div wait_hint
       IN  /\ (queries >= 1 /\ service_status.current_state = state
                    /\ poll_status.tag # "Err")
                => /\ poll_status = NoTimeout(service_status)
                   /\ queries <= n
                   /\ sleeps = queries - 1
                   /\ wait_time = (queries - 1) * wait_hint
                   /\ pc \notin {"poll", "sleep"}
           /\ poll_status.tag = "NoTimeout"
                => poll_status.status.current_state = state
           /\ poll_status.tag = "Timeout" => queries >= n
           /\ pc = "sleep" => (poll_status = NoPoll /\ queries < n)

C12_Witness ==
    /\ entry = "poll_state" /\ pc = "done"
    /\ timeout = 3 /\ wait_hint = 1
    /\ queries = 3 /\ sleeps = 2
    /\ poll_status.tag = "NoTimeout"

\* C13: opening a service that does not exist emits ServiceDoesNotExist
\* exactly once and returns a provider error; Start, Stop, Restart and
\* Uninstall then issue no status query, start, stop or delete and emit no
\* Started, Stopped, Restarted or Uninstalled event.
C13_NotFoundEmitsOnceAndReturns ==
    (entry = "control" /\ open_error = "NotFound")
    => /\ action \in {"Start", "Stop", "Restart", "Uninstall"}
       /\ pc = "done"
       /\ result = ErrService
       /\ events = << WindowsServiceDoesNotExist >>
       /\ calls = << "connect", "open" >>
       /\ queries = 0

C13_Witness ==
    /\ entry = "control" /\ action = "Uninstall" /\ pc = "done"
    /\ open_error = "NotFound"
    /\ Emitted("DoesNotExist")

\* C14: ServiceDoesNotExist is emitted if and only if opening the service
\* failed with 'service not found'; an open that fails with another provider
\* error (access denied), or a failed connect to the registry, emits none.
C14_DoesNotExistOnlyOnNotFound ==
    entry = "control"
    => (Emitted("DoesNotExist") <=> open_error = "NotFound")

\* C15: each of the tokens install, uninstall, start, stop and restart parses
\* to Install, Uninstall, Start, Stop and Restart respectively, and every
\* other token fails with a parse error.
C15_FiveTokensParse ==
    (entry = "from_str" /\ pc = "done")
    => CASE token = "install" -> result = Ok /\ action = "Install"
         [] token = "uninstall" -> result = Ok /\ action = "Uninstall"
         [] token = "start" -> result = Ok /\ action = "Start"
         [] token = "stop" -> result = Ok /\ action = "Stop"
         [] token = "restart" -> result = Ok /\ action = "Restart"
         [] OTHER -> result = ErrParse

\* C16: a provider error returned by a status query inside a poll aborts the
\* poll at once: no further status query and no sleep follows, the enclosing
\* Restart or Uninstall returns that error (not a PollTimeout), issues no
\* start or delete and emits no Restarted or Uninstalled event.
C16_QueryErrorAbortsPoll ==
    (entry = "control" /\ poll_status.tag = "Err")
    => /\ action \in {"Restart", "Uninstall"}
       /\ pc \in {"polled", "done"}
       /\ pc = "done" => result = ErrProvider
       /\ calls[Len(calls)] = "query_status"
       /\ sleeps = queries - 1
       /\ ~Issued("start")
       /\ ~Issued("delete")
       /\ ~Emitted("Restarted")
       /\ ~Emitted("Uninstalled")

C16_Witness ==
    /\ entry = "control" /\ action = "Restart" /\ pc = "done"
    /\ poll_status.tag = "Err"
    /\ queries = 3
    /\ result = ErrProvider

\* C17: however many Stop control events are delivered, the main thread
\* performs at most one receive on the shutdown channel and invokes topology
\* stop at most once; a Stop event delivered after the first one was
\* consumed, and every Interrogate or unrecognised control event, changes
\* nothing in the main thread's progress or in the exit code.
C17_ExtraEventsChangeNothing ==
    /\ [](entry = "run_service" => (recvs <= 1 /\ topology_stops <= 1))
    /\ [][(delivered' = delivered + 1
                /\ (recvs >= 1 \/ stop_events' = stop_events))
            => /\ pc' = pc
               /\ code' = code
               /\ reports' = reports
               /\ result' = result
               /\ recvs' = recvs
               /\ topology_stops' = topology_stops
               /\ aborted' = aborted]_vars

Polling ==
    entry \in {"control", "poll_state"} /\ pc \in {"poll", "sleep"}

C19_CommandsFollowTheirQuery ==
    entry = "control"
    => /\ \A i \in 1..Len(calls) :
            calls[i] \in {"start", "stop", "delete"}
            => (i > 1 /\ calls[i - 1] = "query_status")
       /\ (Len(calls) > 0 /\ calls[Len(calls)] = "delete")
            => service_status.current_state = "Stopped"
       /\ (action = "Restart" /\ Len(calls) > 0 /\ calls[Len(calls)] = "start")
            => service_status.current_state = "Stopped"
       /\ (action = "Restart" /\ Len(calls) > 0 /\ calls[Len(calls)] = "stop")
            => service_status.current_state \in {"StartPending", "Running"}
       /\ (action = "Uninstall" /\ Len(calls) > 0 /\ calls[Len(calls)] = "stop")
            => service_status.current_state # "Stopped"

C19_Witness ==
    /\ entry = "control" /\ action = "Restart" /\ pc = "done"
    /\ result = Ok
    /\ calls = << "connect", "open", "query_status", "stop", "query_status",
                  "query_status", "start" >>

\* every provider error returns from the action at once, so of the calls
\* issued so far only the last one can have failed
LastCallFailed ==
    result.tag \in {"Service", "Provider"} \/ poll_status.tag = "Err"

Succeeded(call) ==
    \E i \in 1..Len(calls) :
        calls[i] = call /\ (i < Len(calls) \/ ~LastCallFailed)

EmittedEvent(e) ==
    \E i \in 1..Len(events) : events[i] = e

\* C20: a control action emits its completion event only after the provider
\* call it reports has succeeded, and at most once: Installed after create,
\* Started(already_started = FALSE) after start, Stopped(already_stopped =
\* FALSE) after stop, Restarted after the final start, Uninstalled after
\* delete; an action whose reported call fails returns an error without
\* emitting that event.
C20_EventOnlyAfterSuccess ==
    entry = "control"
    => /\ \A n \in {"Installed", "Started", "Stopped", "Restarted", "Uninstalled"} :
            Cardinality({i \in 1..Len(events) : events[i].name = n}) <= 1
       /\ Emitted("Installed") => Succeeded("create_service")
       /\ EmittedEvent(WindowsServiceStart(FALSE)) => Succeeded("start")
       /\ EmittedEvent(WindowsServiceStop(FALSE)) => Succeeded("stop")
       /\ Emitted("Restarted")
            => (Succeeded("start") /\ calls[Len(calls)] = "start")
       /\ Emitted("Uninstalled")
            => (Succeeded("delete") /\ calls[Len(calls)] = "delete")
       /\ (pc = "done" /\ Len(calls) > 0 /\ LastCallFailed)
            => /\ result \in {ErrService, ErrProvider}
               /\ calls[Len(calls)] = "create_service" => ~Emitted("Installed")
               /\ calls[Len(calls)] = "start"
                    => (~Emitted("Started") /\ ~Emitted("Restarted"))
               /\ calls[Len(calls)] = "stop" => ~Emitted("Stopped")
               /\ calls[Len(calls)] = "delete" => ~Emitted("Uninstalled")

C20_Witness ==
    /\ entry = "control" /\ action = "Uninstall" /\ pc = "done"
    /\ result = Ok
    /\ Succeeded("stop") /\ Succeeded("delete")
    /\ events = << WindowsServiceStop(FALSE), WindowsServiceUninstall >>

====
